---- MODULE Spec2Model ----
\* Model of the image uploader server (src/index.js): an Express application
\* with a CORS allow-list, a multer in-memory single-file intake, an upload
\* handler that forwards the file to ImageKit and a delete handler.
\*
\* Every request r walks through the middleware chain in the order in which
\* index.js registers it; pc[r] is the position of request r in that chain.
\* ImageKit (the storage gateway) and the HTTP client are the environment.
EXTENDS Integers, Sequences, FiniteSets, TLC

(***************************************************************************)
(* Bounds                                                                  *)
(***************************************************************************)
\* number of requests that may be in flight concurrently (Spec)
NumReqs == 2
\* longest original file name enumerated exhaustively (SpecSingle)
MaxNameLen == 2

Req == 1..NumReqs

(***************************************************************************)
(* JavaScript values                                                       *)
(***************************************************************************)
\* An optional value (a header, a body field, req.file) is <<>> when it is
\* undefined and <<v>> when it is present with value v.
None == <<>>
Some(v) == <<v>>

\* JavaScript truthiness of an optional string: undefined and '' are falsy.
Truthy(v) == v # None /\ v[1] # ""

\* Strings the code inspects character by character (file name, MIME type,
\* storage key) are sequences of one-character strings.
startsWith(s, prefix) ==
    /\ Len(s) >= Len(prefix)
    /\ \A i \in 1..Len(prefix) : s[i] = prefix[i]

\* String(n) for a non-negative integer n, as the template literal prints it.
Digit(d) == <<"0", "1", "2", "3", "4", "5", "6", "7", "8", "9">>[d + 1]

RECURSIVE DecimalString(_)
DecimalString(n) ==
    IF n < 10 THEN <<Digit(n)>>
    ELSE DecimalString(n \div 10) \o <<Digit(n % 10)>>

(***************************************************************************)
(* Configuration (index.js:9-32, 51-54)                                    *)
(***************************************************************************)
\* ALLOW_ORIGIN after .split(',').map(trim): a configuration that lists two
\* origins and holds a stray empty entry.
AllowOriginEntries == <<"http://localhost:3000", "", "https://app.example">>

\* .filter(Boolean) drops the empty entries.
allowedOrigins ==
    {AllowOriginEntries[i] : i \in {j \in 1..Len(AllowOriginEntries) : AllowOriginEntries[j] # ""}}

\* multer limits.fileSize
fileSize == 10 * 1024 * 1024

IMAGEKIT_FOLDER == "/product-images"

(***************************************************************************)
(* Requests                                                                *)
(***************************************************************************)
\* A request as the middleware sees it: the Origin header, the file part of
\* the multipart body (POST /upload) and the fileId of the parsed JSON body
\* (DELETE /image).  A file part is [originalname, mimetype, size].
Request(m, p, o, f, id) ==
    [method |-> m, path |-> p, origin |-> o, file |-> f, fileId |-> id]

NoRequest == Request("", "", None, None, None)

FilePart(n, t, sz) == [originalname |-> n, mimetype |-> t, size |-> sz]

Origins ==
    { None, Some(""), Some("http://localhost:3000"), Some("https://app.example"),
      Some("HTTP://LOCALHOST:3000"), Some("https://evil.example") }

\* The characters of a file name: members and non-members of [a-zA-Z0-9._-].
NameChars == {"a", "Z", "7", ".", "_", "-", " ", "?"}

RECURSIVE SeqsUpTo(_, _)
SeqsUpTo(S, n) ==
    IF n = 0 THEN {<<>>}
    ELSE LET shorter == SeqsUpTo(S, n - 1)
         IN  shorter \cup {Append(s, c) : s \in {t \in shorter : Len(t) = n - 1}, c \in S}

ExampleName == <<"a", " ", "b", "?", ".", "j", "p", "g">>

\* The file names of the file-name specification, and the two names the
\* other specifications upload.
Names == SeqsUpTo(NameChars, MaxNameLen) \cup {ExampleName}
CoreNames == {ExampleName, <<"Z", "-", "7", ".", "_">>}

ImagePng  == <<"i", "m", "a", "g", "e", "/", "p", "n", "g">>
ImageOnly == <<"i", "m", "a", "g", "e", "/">>
ImageWord == <<"i", "m", "a", "g", "e">>
UpperPng  == <<"I", "m", "a", "g", "e", "/", "p", "n", "g">>
TextPlain == <<"t", "e", "x", "t", "/", "p", "l", "a", "i", "n">>
XImage    == <<"x", "/", "i", "m", "a", "g", "e", "/">>

MimeTypes == {ImagePng, ImageOnly, ImageWord, UpperPng, TextPlain, XImage}

Sizes == {10, fileSize, fileSize + 1}

\* The fileId the gateway gives the asset of request r, the fileId of an
\* asset the gateway holds from an earlier run, and one it never held.
GatewayIds == <<"f1", "f2", "f3", "f4">>
PriorId == "f0"
UnknownId == "f9"

\* fileId values of a DELETE body: missing, empty, or an id.
BodyFileIds == {None, Some(""), Some(PriorId), Some(UnknownId), Some(GatewayIds[1])}

UploadBodies ==
    {None} \cup {Some(FilePart(n, t, sz)) : n \in CoreNames, t \in MimeTypes, sz \in Sizes}

\* Every request of the single-request specification.
AllRequests ==
    {Request("GET", "/", o, None, None) : o \in Origins}
    \cup {Request("GET", "/health", o, None, None) : o \in Origins}
    \cup {Request("OPTIONS", p, o, None, None) : p \in {"/upload", "/image"}, o \in Origins}
    \cup {Request("POST", "/upload", o, f, None) : o \in Origins, f \in UploadBodies}
    \cup {Request("DELETE", "/image", o, None, id) : o \in Origins, id \in BodyFileIds}

\* The requests of the file-name specification: valid uploads of every name.
NameRequests ==
    {Request("POST", "/upload", None, Some(FilePart(n, ImagePng, 10)), None) : n \in Names}

\* The requests of the concurrent specification: one of each route and outcome.
CoreRequests ==
    { Request("GET", "/", None, None, None),
      Request("GET", "/health", None, None, None),
      Request("OPTIONS", "/upload", Some("http://localhost:3000"), None, None),
      Request("DELETE", "/image", Some("https://evil.example"), None, Some(PriorId)),
      Request("POST", "/upload", None, None, None),
      Request("POST", "/upload", None, Some(FilePart(ExampleName, ImagePng, 10)), None),
      Request("POST", "/upload", None, Some(FilePart(ExampleName, TextPlain, 10)), None),
      Request("DELETE", "/image", None, None, None),
      Request("DELETE", "/image", None, None, Some("")),
      Request("DELETE", "/image", None, None, Some(PriorId)) }

(***************************************************************************)
(* Responses                                                               *)
(***************************************************************************)
Response(st, k, e, u, id) ==
    [status |-> st, kind |-> k, error |-> e, url |-> u, fileId |-> id]

\* res.status(st).json({ error: e })
ErrorJson(st, e) == Response(st, "error", e, "", "")
\* res.json({ url, fileId })
AssetJson(u, id) == Response(200, "asset", "", u, id)
\* res.json({ ok: true })
OkJson == Response(200, "ok", "", "", "")
\* res.json({ ok: true, message, endpoints })
InfoJson == Response(200, "info", "", "", "")
\* the cors middleware's answer to a pre-flight
Preflight == Response(204, "preflight", "", "", "")
\* Express's default error handler: an HTML page, not a JSON body
ErrorPage(st, e) == Response(st, "html", e, "", "")

(***************************************************************************)
(* The storage gateway (ImageKit) as the handlers see it                   *)
(***************************************************************************)
\* The outcome of an awaited gateway call: it returned a result (an upload's
\* result may be null, or lack a url) or it raised an error with a message.
Returned(res) == [threw |-> FALSE, result |-> res, message |-> ""]
Threw(msg) == [threw |-> TRUE, result |-> None, message |-> msg]
NoOutcome == [threw |-> FALSE, result |-> None, message |-> "pending"]

UploadResult(u, id) == [url |-> u, fileId |-> id]

\* URL of the asset the gateway stores for request r.
GatewayUrls ==
    << "https://ik.imagekit.io/demo/product-images/1", "https://ik.imagekit.io/demo/product-images/2",
       "https://ik.imagekit.io/demo/product-images/3", "https://ik.imagekit.io/demo/product-images/4" >>
UrlOf(r) == GatewayUrls[r]

ErrorMessages == {"", "gateway error"}

\* Date.now() and uuidv4() as the upload handler may observe them.
Timestamps == {0, 1709}
Uuid1 ==
    << "1", "b", "9", "d", "6", "b", "c", "d", "-", "b", "b", "f", "d", "-",
       "4", "b", "2", "d", "-", "9", "b", "5", "d", "-",
       "a", "b", "8", "d", "f", "b", "b", "d", "4", "b", "e", "d" >>
Uuid2 ==
    << "0", "0", "0", "0", "0", "0", "0", "0", "-", "0", "0", "0", "0", "-",
       "4", "0", "0", "0", "-", "8", "0", "0", "0", "-",
       "0", "0", "0", "0", "0", "0", "0", "0", "0", "0", "0", "0" >>
Uuids == {Uuid1, Uuid2}

NoCall == [op |-> "none", fileName |-> <<>>, folder |-> "", fileId |-> ""]

(***************************************************************************)
(* State                                                                   *)
(***************************************************************************)
VARIABLES
    pc,         \* pc[r]: where request r stands in the middleware chain
    request,    \* request[r]: the request as received
    error,      \* error[r]: the error passed to next(err), if any
    call,       \* call[r]: the arguments of r's gateway call
    calls,      \* calls[r]: number of gateway calls issued for r
    outcome,    \* outcome[r]: what the awaited gateway call produced
    resp,       \* resp[r]: the responses the server wrote for r, in order
    received,   \* received[r]: the responses r's client received
    logs,       \* logs[r]: number of console.error entries written for r
    connected,  \* connected[r]: r's client is still connected
    stored,     \* the fileIds of the assets the gateway holds
    persisted   \* persisted[r]: the gateway stored an asset for r's upload

vars ==
    << pc, request, error, call, calls, outcome, resp, received, logs,
       connected, stored, persisted >>

Init ==
    /\ pc = [r \in Req |-> "idle"]
    /\ request = [r \in Req |-> NoRequest]
    /\ error = [r \in Req |-> ""]
    /\ call = [r \in Req |-> NoCall]
    /\ calls = [r \in Req |-> 0]
    /\ outcome = [r \in Req |-> NoOutcome]
    /\ resp = [r \in Req |-> <<>>]
    /\ received = [r \in Req |-> <<>>]
    /\ logs = [r \in Req |-> 0]
    /\ connected = [r \in Req |-> TRUE]
    /\ stored = {PriorId}
    /\ persisted = [r \in Req |-> FALSE]

\* res.json / res.end for request r: the response is written once more, and
\* reaches the client if it is still connected.  The request is finished.
Send(r, response) ==
    /\ resp' = [resp EXCEPT ![r] = Append(@, response)]
    /\ received' = [received EXCEPT ![r] = IF connected[r] THEN Append(@, response) ELSE @]
    /\ pc' = [pc EXCEPT ![r] = "done"]

(***************************************************************************)
(* Origin allow-list (index.js:34-47)                                      *)
(***************************************************************************)
\* An origin check that admits every origin.
originAllowedAny(origin) == TRUE

\* corsOptions.origin: callback(null, true) iff the result is TRUE.
originAllowed(origin) ==
    \/ ~Truthy(origin)
    \/ origin[1] \in allowedOrigins

\* A client sends request req as request r.
Arrive(r, req) ==
    /\ pc[r] = "idle"
    /\ request' = [request EXCEPT ![r] = req]
    /\ pc' = [pc EXCEPT ![r] = "cors"]
    /\ UNCHANGED <<error, call, calls, outcome, resp, received, logs, connected, stored, persisted>>

\* app.use(cors(corsOptions)): a denied origin is passed to next(err); a
\* pre-flight of an admitted origin is answered by the middleware itself;
\* every other request goes on to express.json() and the router.
CorsMiddleware(r) ==
    /\ pc[r] = "cors"
    /\ IF ~originAllowed(request[r].origin)
       THEN /\ error' = [error EXCEPT ![r] = "Not allowed by CORS"]
            /\ pc' = [pc EXCEPT ![r] = "error"]
            /\ UNCHANGED <<resp, received>>
       ELSE IF request[r].method = "OPTIONS"
       THEN /\ Send(r, Preflight)
            /\ UNCHANGED error
       ELSE /\ pc' = [pc EXCEPT ![r] = "route"]
            /\ UNCHANGED <<error, resp, received>>
    /\ UNCHANGED <<request, call, calls, outcome, logs, connected, stored, persisted>>

\* No error-handling middleware is registered, so an error passed to next()
\* ends in Express's default handler: neither Error nor MulterError carries a
\* status, the response is 500, and the error is written to console.error.
DefaultErrorHandler(r) ==
    /\ pc[r] = "error"
    /\ logs' = [logs EXCEPT ![r] = @ + 1]
    /\ Send(r, ErrorPage(500, error[r]))
    /\ UNCHANGED <<request, error, call, calls, outcome, connected, stored, persisted>>

(***************************************************************************)
(* GET / and GET /health (index.js:56-69)                                  *)
(***************************************************************************)
GetRoot(r) ==
    /\ pc[r] = "route"
    /\ request[r].method = "GET" /\ request[r].path = "/"
    /\ Send(r, InfoJson)
    /\ UNCHANGED <<request, error, call, calls, outcome, logs, connected, stored, persisted>>

GetHealth(r) ==
    /\ pc[r] = "route"
    /\ request[r].method = "GET" /\ request[r].path = "/health"
    /\ Send(r, OkJson)
    /\ UNCHANGED <<request, error, call, calls, outcome, logs, connected, stored, persisted>>

(***************************************************************************)
(* File intake (index.js:51-54, 71)                                        *)
(***************************************************************************)
\* limits.fileSize: a file part larger than the limit is refused.
tooLarge(file) == file # None /\ file[1].size > fileSize

\* upload.single('file'): a file over the limit raises MulterError
\* LIMIT_FILE_SIZE through next(err); otherwise req.file is the file part,
\* or undefined, and the handler runs.
Multer(r) ==
    /\ pc[r] = "route"
    /\ request[r].method = "POST" /\ request[r].path = "/upload"
    /\ IF tooLarge(request[r].file)
       THEN /\ error' = [error EXCEPT ![r] = "File too large"]
            /\ pc' = [pc EXCEPT ![r] = "error"]
       ELSE /\ pc' = [pc EXCEPT ![r] = "upload"]
            /\ UNCHANGED error
    /\ UNCHANGED <<request, call, calls, outcome, resp, received, logs, connected, stored, persisted>>

(***************************************************************************)
(* Name generation (index.js:79-80)                                        *)
(***************************************************************************)
Lower == { "a", "b", "c", "d", "e", "f", "g", "h", "i", "j", "k", "l", "m",
           "n", "o", "p", "q", "r", "s", "t", "u", "v", "w", "x", "y", "z" }
Upper == { "A", "B", "C", "D", "E", "F", "G", "H", "I", "J", "K", "L", "M",
           "N", "O", "P", "Q", "R", "S", "T", "U", "V", "W", "X", "Y", "Z" }
Digits == {"0", "1", "2", "3", "4", "5", "6", "7", "8", "9"}
\* the character class [a-zA-Z0-9._-]
SafeChars == Lower \cup Upper \cup Digits \cup {".", "_", "-"}

\* A sanitizer that removes the characters outside the class.
RECURSIVE safeNameStrip(_)
safeNameStrip(originalname) ==
    IF originalname = <<>> THEN <<>>
    ELSE IF Head(originalname) \in SafeChars
         THEN <<Head(originalname)>> \o safeNameStrip(Tail(originalname))
         ELSE safeNameStrip(Tail(originalname))

\* originalname.replace(/[^a-zA-Z0-9._-]/g, '_')
safeName(originalname) ==
    [i \in 1..Len(originalname) |->
        IF originalname[i] \in SafeChars THEN originalname[i] ELSE "_"]

\* `${Date.now()}-${uuidv4()}-${safeName}`
fileNameOf(now, uuid, originalname) ==
    DecimalString(now) \o <<"-">> \o uuid \o <<"-">> \o safeName(originalname)

(***************************************************************************)
(* Upload handler (index.js:71-101)                                        *)
(***************************************************************************)
\* A type check that forgets the slash.
isImageNoSlash(mimetype) == startsWith(mimetype, ImageWord)

\* mimetype.startsWith('image/')
isImage(mimetype) == startsWith(mimetype, ImageOnly)

\* The handler up to its await: the two validations answer 400 themselves;
\* a valid file is named and handed to imagekit.upload, and the handler
\* suspends.
UploadHandler(r) ==
    /\ pc[r] = "upload"
    /\ IF request[r].file = None
       THEN /\ Send(r, ErrorJson(400, "No file provided"))
            /\ UNCHANGED <<call, calls>>
       ELSE IF ~isImage(request[r].file[1].mimetype)
       THEN /\ Send(r, ErrorJson(400, "Only image uploads are allowed"))
            /\ UNCHANGED <<call, calls>>
       ELSE /\ \E now \in Timestamps, uuid \in Uuids :
                 call' = [call EXCEPT ![r] =
                            [ op |-> "upload",
                              fileName |-> fileNameOf(now, uuid, request[r].file[1].originalname),
                              folder |-> IMAGEKIT_FOLDER,
                              fileId |-> "" ]]
            /\ calls' = [calls EXCEPT ![r] = @ + 1]
            /\ pc' = [pc EXCEPT ![r] = "awaitUpload"]
            /\ UNCHANGED <<resp, received>>
    /\ UNCHANGED <<request, error, outcome, logs, connected, stored, persisted>>

\* imagekit.upload completes.  The gateway stores the asset and returns its
\* url and fileId; or it returns a result without a url (having stored the
\* asset or not) or no result at all; or it raises an error.
ImageKitUpload(r) ==
    /\ pc[r] = "awaitUpload"
    /\ \/ /\ outcome' = [outcome EXCEPT ![r] = Returned(Some(UploadResult(UrlOf(r), GatewayIds[r])))]
          /\ stored' = stored \cup {GatewayIds[r]}
          /\ persisted' = [persisted EXCEPT ![r] = TRUE]
       \/ /\ outcome' = [outcome EXCEPT ![r] = Returned(Some(UploadResult("", GatewayIds[r])))]
          /\ stored' = stored \cup {GatewayIds[r]}
          /\ persisted' = [persisted EXCEPT ![r] = TRUE]
       \/ /\ outcome' = [outcome EXCEPT ![r] = Returned(None)]
          /\ UNCHANGED <<stored, persisted>>
       \/ /\ \E msg \in ErrorMessages : outcome' = [outcome EXCEPT ![r] = Threw(msg)]
          /\ UNCHANGED <<stored, persisted>>
    /\ pc' = [pc EXCEPT ![r] = "resumeUpload"]
    /\ UNCHANGED <<request, error, call, calls, resp, received, logs, connected>>

\* !result?.url
noUrl(result) == result = None \/ result[1].url = ""

\* e.message || 'Server error'
messageOf(o) == IF o.message # "" THEN o.message ELSE "Server error"

\* An upload reply that tests the result, not its url.
uploadReplyNoUrlTest(o) ==
    IF o.threw THEN ErrorJson(500, messageOf(o))
    ELSE IF o.result = None THEN ErrorJson(500, "ImageKit upload failed")
    ELSE AssetJson(o.result[1].url, o.result[1].fileId)

\* The response the upload handler writes once the awaited call is settled
\* (index.js:92-99).
uploadReply(o) ==
    IF o.threw THEN ErrorJson(500, messageOf(o))
    ELSE IF noUrl(o.result) THEN ErrorJson(500, "ImageKit upload failed")
    ELSE AssetJson(o.result[1].url, o.result[1].fileId)

\* A resume that calls the gateway again when the call threw.
UploadResumeRetry(r) ==
    /\ pc[r] = "resumeUpload"
    /\ IF outcome[r].threw
       THEN /\ calls' = [calls EXCEPT ![r] = @ + 1]
            /\ outcome' = [outcome EXCEPT ![r] = NoOutcome]
            /\ pc' = [pc EXCEPT ![r] = "awaitUpload"]
            /\ UNCHANGED <<resp, received>>
       ELSE /\ Send(r, uploadReply(outcome[r]))
            /\ UNCHANGED <<calls, outcome>>
    /\ UNCHANGED <<request, error, call, logs, connected, stored, persisted>>

\* The handler resumes after the await; only the catch block logs.
UploadResume(r) ==
    /\ pc[r] = "resumeUpload"
    /\ logs' = [logs EXCEPT ![r] = IF outcome[r].threw THEN @ + 1 ELSE @]
    /\ Send(r, uploadReply(outcome[r]))
    /\ UNCHANGED <<request, error, call, calls, outcome, connected, stored, persisted>>

(***************************************************************************)
(* Delete handler (index.js:104-114)                                       *)
(***************************************************************************)
\* A presence test that accepts the empty string.
fileIdUndefined(fileId) == fileId = None

\* if (!fileId): the id is missing when it is undefined or falsy.
fileIdMissing(fileId) == ~Truthy(fileId)

DeleteHandler(r) ==
    /\ pc[r] = "route"
    /\ request[r].method = "DELETE" /\ request[r].path = "/image"
    /\ IF fileIdMissing(request[r].fileId)
       THEN /\ Send(r, ErrorJson(400, "fileId is required"))
            /\ UNCHANGED <<call, calls>>
       ELSE /\ call' = [call EXCEPT ![r] =
                          [op |-> "deleteFile", fileName |-> <<>>, folder |-> "",
                           fileId |-> request[r].fileId[1]]]
            /\ calls' = [calls EXCEPT ![r] = @ + 1]
            /\ pc' = [pc EXCEPT ![r] = "awaitDelete"]
            /\ UNCHANGED <<resp, received>>
    /\ UNCHANGED <<request, error, outcome, logs, connected, stored, persisted>>

\* imagekit.deleteFile completes: a held asset is removed; an id the gateway
\* does not hold is an error; any call may fail on the way.
ImageKitDeleteFile(r) ==
    /\ pc[r] = "awaitDelete"
    /\ \/ /\ call[r].fileId \in stored
          /\ stored' = stored \ {call[r].fileId}
          /\ outcome' = [outcome EXCEPT ![r] = Returned(None)]
       \/ /\ call[r].fileId \notin stored
          /\ outcome' = [outcome EXCEPT ![r] = Threw("The requested file does not exist.")]
          /\ UNCHANGED stored
       \/ /\ \E msg \in ErrorMessages : outcome' = [outcome EXCEPT ![r] = Threw(msg)]
          /\ UNCHANGED stored
    /\ pc' = [pc EXCEPT ![r] = "resumeDelete"]
    /\ UNCHANGED <<request, error, call, calls, resp, received, logs, connected, persisted>>

\* The response the delete handler writes once the awaited call is settled
\* (index.js:109-113).
deleteReply(o) ==
    IF o.threw THEN ErrorJson(500, messageOf(o)) ELSE OkJson

DeleteResume(r) ==
    /\ pc[r] = "resumeDelete"
    /\ logs' = [logs EXCEPT ![r] = IF outcome[r].threw THEN @ + 1 ELSE @]
    /\ Send(r, deleteReply(outcome[r]))
    /\ UNCHANGED <<request, error, call, calls, outcome, connected, stored, persisted>>

(***************************************************************************)
(* The client                                                              *)
(***************************************************************************)
\* The client goes away while its gateway call is pending.  Nothing in
\* index.js listens for it: the call and the handler carry on.
ClientDisconnect(r) ==
    /\ pc[r] \in {"awaitUpload", "awaitDelete"}
    /\ connected[r]
    /\ connected' = [connected EXCEPT ![r] = FALSE]
    /\ UNCHANGED <<pc, request, error, call, calls, outcome, resp, received, logs, stored, persisted>>

(***************************************************************************)
(* Specifications                                                          *)
(***************************************************************************)
Step(r) ==
    \/ CorsMiddleware(r)
    \/ DefaultErrorHandler(r)
    \/ GetRoot(r)
    \/ GetHealth(r)
    \/ Multer(r)
    \/ UploadHandler(r)
    \/ ImageKitUpload(r)
    \/ UploadResume(r)
    \/ DeleteHandler(r)
    \/ ImageKitDeleteFile(r)
    \/ DeleteResume(r)
    \/ ClientDisconnect(r)

\* NumReqs requests in flight at once, interleaved in every order.
Next ==
    \/ \E r \in Req, req \in CoreRequests : Arrive(r, req)
    \/ \E r \in Req : Step(r)

Spec == Init /\ [][Next]_vars

\* One request of any shape.
NextSingle ==
    \/ \E req \in AllRequests : Arrive(1, req)
    \/ Step(1)

SpecSingle == Init /\ [][NextSingle]_vars

\* One valid upload under every file name, up to the gateway call.
NextName ==
    \/ \E req \in NameRequests : Arrive(1, req)
    \/ CorsMiddleware(1)
    \/ Multer(1)
    \/ UploadHandler(1)

SpecName == Init /\ [][NextName]_vars

(***************************************************************************)
(* Vocabulary of the properties                                            *)
(***************************************************************************)
IsUpload(r) == request[r].method = "POST" /\ request[r].path = "/upload"
IsDelete(r) == request[r].method = "DELETE" /\ request[r].path = "/image"
Done(r) == pc[r] = "done"
Awaiting(r) == pc[r] \in {"awaitUpload", "awaitDelete"}

\* Request r was answered by its route handler: no middleware before the
\* handler passed an error to next().
HandledByRoute(r) == Done(r) /\ error[r] = "" /\ request[r].method # "OPTIONS"

HasFile(r) == request[r].file # None
MimeOf(r) == request[r].file[1].mimetype
NameOf(r) == request[r].file[1].originalname

InvalidType == ErrorJson(400, "Only image uploads are allowed")
MissingFile == ErrorJson(400, "No file provided")
MissingFileId == ErrorJson(400, "fileId is required")

\* C1: an upload whose file has a MIME type that does not start with
\* "image/" never reaches the gateway, and when the upload handler answers
\* it, the answer is 400 "Only image uploads are allowed".
C1_NonImageRejected ==
    \A r \in Req :
        (IsUpload(r) /\ HasFile(r) /\ ~startsWith(MimeOf(r), <<"i", "m", "a", "g", "e", "/">>))
            => /\ calls[r] = 0
               /\ call[r] = NoCall
               /\ pc[r] \notin {"awaitUpload", "resumeUpload"}
               /\ HandledByRoute(r) => resp[r] = <<InvalidType>>

\* A text/plain upload and an upload typed "image" (no slash) were both
\* answered 400 by the handler.
C1_Witness ==
    \E r \in Req :
        /\ IsUpload(r) /\ HasFile(r) /\ MimeOf(r) \in {TextPlain, ImageWord, UpperPng}
        /\ HandledByRoute(r)
        /\ resp[r] = <<InvalidType>>

CorsError == ErrorPage(500, "Not allowed by CORS")

\* The origin check has been made for request r.
PastCors(r) == pc[r] \notin {"idle", "cors"}

\* Request r was turned away by the origin check: the error went to the
\* default handler, no route handler and no gateway call ran for it.
Denied(r) ==
    /\ error[r] = "Not allowed by CORS"
    /\ pc[r] \in {"error", "done"}
    /\ calls[r] = 0 /\ call[r] = NoCall /\ outcome[r] = NoOutcome
    /\ Done(r) => resp[r] = <<CorsError>>

\* Request r passed the origin check: it went on to its route (the
\* pre-flight answer, the file intake or the handler).
Passed(r) ==
    /\ error[r] # "Not allowed by CORS"
    /\ Done(r) => resp[r] # <<CorsError>>
    /\ (Done(r) /\ request[r].method = "OPTIONS") => resp[r] = <<Preflight>>
    /\ (Done(r) /\ request[r].method # "OPTIONS" /\ ~tooLarge(request[r].file))
           => resp[r][1].kind \in {"info", "ok", "asset", "error"}

InAllowList(o) == o[1] \in {"http://localhost:3000", "https://app.example"}

\* C2 as claimed: a request passes the origin check iff its Origin is absent
\* or equals an entry of the allow-list; every other present Origin is denied.
C2_AsClaimed ==
    \A r \in Req :
        PastCors(r) =>
            LET o == request[r].origin
            IN  /\ (o = None \/ (o # None /\ InAllowList(o))) => Passed(r)
                /\ (o # None /\ ~InAllowList(o)) => Denied(r)

\* C2 amended: a request passes the origin check iff its Origin is absent,
\* empty, or exactly equal to an entry of the allow-list; every other Origin
\* is denied before any handler or gateway call runs.
C2_OriginCheck ==
    \A r \in Req :
        PastCors(r) =>
            LET o == request[r].origin
            IN  /\ (o = None \/ o = Some("") \/ (o # None /\ InAllowList(o))) => Passed(r)
                /\ (o # None /\ o # Some("") /\ ~InAllowList(o)) => Denied(r)

\* A valid image upload whose Origin differs from a listed origin only in
\* case was denied: it got the CORS error and no gateway call was made.
C2_Witness ==
    \E r \in Req :
        /\ Done(r) /\ IsUpload(r) /\ HasFile(r) /\ MimeOf(r) = ImagePng
        /\ request[r].file[1].size = 10
        /\ request[r].origin = Some("HTTP://LOCALHOST:3000")
        /\ resp[r] = <<CorsError>>
        /\ calls[r] = 0

\* C3 as claimed: an upload whose file exceeds 10 MiB is answered with a 4xx
\* status, and neither the handler nor the gateway runs for it.
C3_AsClaimed ==
    \A r \in Req :
        (IsUpload(r) /\ HasFile(r) /\ request[r].file[1].size > 10 * 1024 * 1024
            /\ originAllowed(request[r].origin))
            => /\ calls[r] = 0
               /\ pc[r] \notin {"upload", "awaitUpload", "resumeUpload"}
               /\ Done(r) => (resp[r][1].status >= 400 /\ resp[r][1].status <= 499)

\* C4 as claimed: OriginDenied, MissingFile, InvalidType and MissingFileId
\* are each answered with status 400 and their error string, never 5xx.
C4_AsClaimed ==
    \A r \in Req :
        Done(r) =>
            /\ (Truthy(request[r].origin) /\ ~InAllowList(request[r].origin))
                   => resp[r][1].status = 400
            /\ (HandledByRoute(r) /\ IsUpload(r) /\ ~HasFile(r)) => resp[r] = <<MissingFile>>
            /\ (HandledByRoute(r) /\ IsUpload(r) /\ HasFile(r) /\ ~isImage(MimeOf(r)))
                   => resp[r] = <<InvalidType>>
            /\ (HandledByRoute(r) /\ IsDelete(r) /\ request[r].fileId = None)
                   => resp[r] = <<MissingFileId>>

\* The upload request r passed validation and its handler has answered.
ValidUploadAnswered(r) ==
    /\ HandledByRoute(r) /\ IsUpload(r) /\ HasFile(r)
    /\ startsWith(MimeOf(r), <<"i", "m", "a", "g", "e", "/">>)

UsableUrl(o) == ~o.threw /\ o.result # None /\ o.result[1].url # ""

\* C5: a validated upload is answered 200 {url, fileId}, with the gateway's
\* url and fileId, iff the gateway call returned a result with a non-empty
\* url; a call that threw is answered 500 with its message, or "Server
\* error" when it has none; a result without url is answered 500 "ImageKit
\* upload failed".
C5_UploadOutcome ==
    \A r \in Req :
        ValidUploadAnswered(r) =>
            LET o == outcome[r]
            IN  /\ Len(resp[r]) = 1
                /\ (resp[r][1].status = 200) <=> UsableUrl(o)
                /\ UsableUrl(o) =>
                       resp[r][1] = [ status |-> 200, kind |-> "asset", error |-> "",
                                      url |-> o.result[1].url, fileId |-> o.result[1].fileId ]
                /\ ~UsableUrl(o) => (resp[r][1].status = 500 /\ resp[r][1].kind = "error")
                /\ (o.threw /\ o.message # "") => resp[r][1].error = o.message
                /\ (o.threw /\ o.message = "") => resp[r][1].error = "Server error"
                /\ (~o.threw /\ ~UsableUrl(o)) => resp[r][1].error = "ImageKit upload failed"

\* A validated upload whose gateway call returned a result with an empty url
\* was answered 500 "ImageKit upload failed".
C5_Witness ==
    \E r \in Req :
        /\ ValidUploadAnswered(r)
        /\ ~outcome[r].threw /\ outcome[r].result # None /\ outcome[r].result[1].url = ""
        /\ resp[r] = <<ErrorJson(500, "ImageKit upload failed")>>

\* C6 as claimed: once an upload request is over, the gateway has stored an
\* asset for it iff its client received 200 with the url and fileId.
C6_AsClaimed ==
    \A r \in Req :
        (Done(r) /\ IsUpload(r)) =>
            (persisted[r] <=> (received[r] # <<>> /\ received[r][1].kind = "asset"))

\* The request was answered by the delete handler.
DeleteAnswered(r) == HandledByRoute(r) /\ IsDelete(r)

\* The answer of the delete handler mirrors its single gateway call.
MirrorsDelete(r) ==
    /\ calls[r] = 1
    /\ call[r].op = "deleteFile" /\ call[r].fileId = request[r].fileId[1]
    /\ outcome[r] # NoOutcome
    /\ Len(resp[r]) = 1
    /\ ~outcome[r].threw => resp[r][1] = OkJson
    /\ outcome[r].threw => (resp[r][1].status = 500 /\ resp[r][1].kind = "error")

NotCalled(r) == calls[r] = 0 /\ call[r] = NoCall /\ outcome[r] = NoOutcome

\* C7 as claimed: a delete without fileId is answered 400 "fileId is
\* required" without a gateway call; every other delete calls deleteFile
\* once and mirrors its outcome.
C7_AsClaimed ==
    \A r \in Req :
        DeleteAnswered(r) =>
            IF request[r].fileId = None
            THEN resp[r] = <<MissingFileId>> /\ NotCalled(r)
            ELSE MirrorsDelete(r)

\* C7 amended: a delete whose fileId is absent or empty is answered 400
\* "fileId is required" without a gateway call; every other delete calls
\* deleteFile(fileId) once and mirrors that call's outcome, {ok:true} if it
\* returned and 500 if it threw, whatever earlier requests did.
C7_DeleteOutcome ==
    \A r \in Req :
        DeleteAnswered(r) =>
            IF request[r].fileId = None \/ request[r].fileId = Some("")
            THEN resp[r] = <<MissingFileId>> /\ NotCalled(r)
            ELSE MirrorsDelete(r)

\* Two deletes of the same fileId: the first removed the asset and got
\* {ok:true}, the second got the gateway's error as a 500.
C7_Witness ==
    \E r1, r2 \in Req :
        /\ r1 # r2
        /\ DeleteAnswered(r1) /\ DeleteAnswered(r2)
        /\ request[r1].fileId = Some(PriorId) /\ request[r2].fileId = Some(PriorId)
        /\ resp[r1] = <<OkJson>>
        /\ resp[r2] = <<ErrorJson(500, "The requested file does not exist.")>>
        /\ logs[r2] = 1

\* Membership in [A-Za-z0-9._-], in the decimal digits, in the characters
\* of a UUID.
InClass(c) == c \in Lower \cup Upper \cup Digits \cup {".", "_", "-"}
IsDigit(c) == c \in {"0", "1", "2", "3", "4", "5", "6", "7", "8", "9"}
IsHexOrHyphen(c) == IsDigit(c) \/ c \in {"a", "b", "c", "d", "e", "f", "-"}

\* key is "<digits>-<36 characters of hex and hyphens>-<tail>", the tail as
\* long as name, equal to it at the positions of class characters and "_"
\* at the others.
WellFormedKey(key, name) ==
    LET n == Len(name)
        k == Len(key)
        d == k - n - 38    \* number of timestamp digits
    IN  /\ d >= 1
        /\ \A i \in 1..d : IsDigit(key[i])
        /\ key[d + 1] = "-"
        /\ \A i \in (d + 2)..(d + 37) : IsHexOrHyphen(key[i])
        /\ key[d + 38] = "-"
        /\ \A i \in 1..n :
               key[d + 38 + i] = (IF InClass(name[i]) THEN name[i] ELSE "_")
        /\ \A i \in 1..k : InClass(key[i])

\* C8: the storage key handed to the gateway is
\* "<unixMillis>-<uuidV4>-<sanitizedName>": the sanitized name has the length
\* of the original name, keeps every character of [A-Za-z0-9._-] in place
\* and holds "_" everywhere else, so the key is made of class characters only.
C8_StorageKey ==
    \A r \in Req :
        call[r].op = "upload" =>
            /\ WellFormedKey(call[r].fileName, NameOf(r))
            /\ call[r].folder = "/product-images"

\* "a b?.jpg" was handed to the gateway under a key ending in "-a_b_.jpg".
C8_Witness ==
    \E r \in Req :
        /\ call[r].op = "upload"
        /\ NameOf(r) = <<"a", " ", "b", "?", ".", "j", "p", "g">>
        /\ LET key == call[r].fileName
           IN  SubSeq(key, Len(key) - 8, Len(key))
                   = <<"-", "a", "_", "b", "_", ".", "j", "p", "g">>

IsErrorResponse(x) == x.status >= 400

\* C9 as claimed: whenever an error response has been written for a request,
\* a log entry has been written for that request.
C9_AsClaimed ==
    \A r \in Req :
        (resp[r] # <<>> /\ IsErrorResponse(resp[r][1])) => logs[r] >= 1

\* Request r failed validation in its handler.
FailedValidation(r) ==
    /\ HandledByRoute(r)
    /\ \/ IsUpload(r) /\ (~HasFile(r) \/ ~startsWith(MimeOf(r), ImageOnly))
       \/ IsDelete(r) /\ request[r].fileId \in {None, Some("")}

\* C10: under every interleaving, a request issues at most one gateway call,
\* nothing is written to its response while that call is pending, a finished
\* request has exactly one response, written after its call (if any) was
\* settled, and a request that failed validation has issued no call.
C10_OneCallOneResponse ==
    \A r \in Req :
        /\ calls[r] <= 1
        /\ Len(resp[r]) <= 1
        /\ (pc[r] \in {"awaitUpload", "awaitDelete", "resumeUpload", "resumeDelete"})
               => (calls[r] = 1 /\ resp[r] = <<>>)
        /\ Awaiting(r) => outcome[r] = NoOutcome
        /\ Done(r) => Len(resp[r]) = 1
        /\ (Done(r) /\ calls[r] = 1) => outcome[r] # NoOutcome
        /\ FailedValidation(r) => (calls[r] = 0 /\ Len(resp[r]) = 1)

\* An upload has its single response after its single gateway call while
\* the gateway call of another request is still pending, unanswered.
C10_Witness ==
    \E r1, r2 \in Req :
        /\ r1 # r2
        /\ Done(r1) /\ calls[r1] = 1 /\ Len(resp[r1]) = 1 /\ IsUpload(r1)
        /\ Awaiting(r2) /\ calls[r2] = 1 /\ resp[r2] = <<>>

====
